---- MODULE Spec2Model ----
(***************************************************************************)
(* A model of New_Alarm_Mutex.c: a main thread that reads commands         *)
(* (Create_Thread, Terminate_Thread, alarm request) and alarm threads that *)
(* take requests of their message type from the shared alarm_list, keep    *)
(* them in a private sublist and print them when they are due.             *)
(*                                                                         *)
(* Memory is modelled explicitly: every alarm_t is a heap cell with its    *)
(* link, seconds, time, message_type and status fields, and the lists are  *)
(* the pointer chains the code builds.  Every critical section of          *)
(* alarm_mutex is one atomic action; the steps a thread takes outside the  *)
(* mutex are separate actions.                                             *)
(*                                                                         *)
(* Undefined behaviour is a choice of the step that commits it: an access  *)
(* to a freed cell either finds what was last written there or kills the   *)
(* process, an integer read from a freed cell is any value, a second       *)
(* free() of a cell aborts the process, and a variable read before it was  *)
(* assigned holds any pointer.  malloc never hands out a freed cell again. *)
(* pthread_cond_wait returns on a broadcast or a cancellation only.        *)
(***************************************************************************)
EXTENDS Integers, Sequences, FiniteSets, TLC

\* ------------------------------------------------------------- bounds
\* number of alarm requests the main thread accepts (heap cells are not reused)
MaxAlarms == 2
\* number of Create_Thread commands the main thread accepts
MaxWorkers == 2
\* message types are 1..MaxType
MaxType == 1
\* requested delays are 0..MaxDelay seconds
MaxDelay == 1
\* the clock runs from 0 to MaxTime
MaxTime == 1
\* number of Terminate_Thread commands the main thread accepts
MaxRetires == 1

\* the bounds of SpecOne: one alarm thread, more alarm requests and types
OneAlarms == 3
OneWorkers == 1
OneType == 2
\* the bounds of SpecReg: more threads, types and Terminate_Thread commands
RegWorkers == 3
RegRetires == 2
RegType == 2
\* the bounds of SpecBind: alarm requests of delay 0 and Create_Thread commands
BindAlarms == 1
BindType == 2
\* the bounds of SpecQueue: more alarm requests, all of delay 0, the clock stands
QueueAlarms == 4

Max(x, y) == IF x > y THEN x ELSE y

NULL == 0
\* a pointer that designates no object of the program (stack garbage)
WILD == -1

Alarms == 1 .. Max(Max(MaxAlarms, OneAlarms), QueueAlarms)
Workers == 1 .. Max(Max(MaxWorkers, OneWorkers), RegWorkers)
Types == 1 .. Max(Max(Max(MaxType, OneType), RegType), BindType)
Delays == 0 .. MaxDelay
\* iterations after which a list walk has met a cycle and never ends
Fuel == Cardinality(Alarms) + 1

VARIABLES
    heap,            \* alarm_t cells: [link, seconds, time, message_type, status, st]
    alarm_list,      \* the shared list's head
    nalloc,          \* alarm cells handed out by malloc so far
    now,             \* time(NULL)
    mpc,             \* where the main thread is: idle, bcast, purge
    terminated_message_type,
    contains,        \* the flag of the last Terminate_Thread command
    reg,             \* alarm_thread_t nodes: [link, message_type, st]
    head_thread,
    last_thread,
    nthreads,        \* threads created so far
    nretires,        \* Terminate_Thread commands so far
    arg_i,           \* the stack slot of "int i" that pthread_create's arg points to
    thr,             \* per alarm thread: pc and the locals of alarm_thread
    crashed,         \* the process has aborted or hangs in a list walk
    deadline,        \* history: schedule time + seconds of each request
    frees,           \* history: calls of free() on each cell
    fired,           \* history: the fired events, in order
    retired          \* history: types retired with no request scheduled since

vars == << heap, alarm_list, nalloc, now, mpc, terminated_message_type, contains,
           reg, head_thread, last_thread, nthreads, nretires, arg_i, thr,
           crashed, deadline, frees, fired, retired >>

mainVars == << mpc, terminated_message_type, contains, nretires >>
regVars == << reg, head_thread, last_thread, nthreads >>
histVars == << deadline, frees, fired, retired >>

\* ------------------------------------------------------------- memory

NoCell == [link |-> NULL, seconds |-> 0, time |-> 0, message_type |-> 0,
           status |-> 0, st |-> "unalloc"]

NoNode == [link |-> NULL, message_type |-> 0, st |-> "unalloc"]

NoThread == [pc |-> "none", type_of_thread |-> 0, alarm |-> NULL,
             current_alarm |-> NULL, thread_alarm_list |-> NULL,
             cancel |-> FALSE, woken |-> FALSE]

\* p designates a cell whose memory was given back: an access is undefined
Dangling(h, p) == p \in Alarms /\ h[p].st # "live"

\* an access through p cannot be carried out at all
Unmapped(p) == p \notin Alarms

\* The outcome of an access to freed memory is chosen per action: "stale"
\* (the cell still holds what was last written) or "crash" (the process dies).
UBModes == {"stale", "crash"}

Faults(h, p, ub) == Unmapped(p) \/ (Dangling(h, p) /\ ub = "crash")

Init ==
    /\ heap = [a \in Alarms |-> NoCell]
    /\ alarm_list = NULL
    /\ nalloc = 0
    /\ now = 0
    /\ mpc = "idle"
    /\ terminated_message_type = 0
    /\ contains = 0
    /\ reg = [w \in Workers |-> NoNode]
    /\ head_thread = NULL
    /\ last_thread = NULL
    /\ nthreads = 0
    /\ nretires = 0
    /\ arg_i = 0
    /\ thr = [w \in Workers |-> NoThread]
    /\ crashed = FALSE
    /\ deadline = [a \in Alarms |-> 0]
    /\ frees = [a \in Alarms |-> 0]
    /\ fired = << >>
    /\ retired = {}

\* ------------------------------------------------------------- alarm_insert

\* The walk of alarm_insert: prev = NULL stands for last = &alarm_list.
RECURSIVE InsertWalk(_, _, _, _, _, _, _)
InsertWalk(h, head, prev, next, a, ub, fuel) ==
    IF next = NULL
    THEN [ok |-> TRUE,
          head |-> IF prev = NULL THEN a ELSE head,
          heap |-> IF prev = NULL
                   THEN [h EXCEPT ![a].link = NULL]
                   ELSE [h EXCEPT ![prev].link = a, ![a].link = NULL]]
    ELSE IF fuel = 0 \/ Faults(h, next, ub)
    THEN [ok |-> FALSE, head |-> head, heap |-> h]
    ELSE IF h[next].message_type >= h[a].message_type
    THEN [ok |-> TRUE,
          head |-> IF prev = NULL THEN a ELSE head,
          heap |-> IF prev = NULL
                   THEN [h EXCEPT ![a].link = next]
                   ELSE [h EXCEPT ![prev].link = a, ![a].link = next]]
    ELSE InsertWalk(h, head, next, h[next].link, a, ub, fuel - 1)

\* alarm_insert without the walk: the request is put in front of the list
alarm_insert_in_front(h, head, a, ub) ==
    [ok |-> TRUE, head |-> a, heap |-> [h EXCEPT ![a].link = head]]

alarm_insert(h, head, a, ub) == InsertWalk(h, head, NULL, head, a, ub, Fuel)

\* case 3 of main up to alarm_insert's unlock: the request is allocated,
\* filled in and placed in alarm_list
Schedule(d, T) ==
    /\ ~crashed /\ mpc = "idle"
    /\ \E ub \in UBModes :
         LET a == nalloc + 1
             cell == [link |-> NULL, seconds |-> d, time |-> now + d,
                      message_type |-> T, status |-> 0, st |-> "live"]
             r == alarm_insert([heap EXCEPT ![a] = cell], alarm_list, a, ub)
         IN /\ heap' = r.heap
            /\ alarm_list' = r.head
            /\ crashed' = ~r.ok
            /\ mpc' = IF r.ok THEN "bcast" ELSE mpc
            /\ nalloc' = a
            /\ deadline' = [deadline EXCEPT ![a] = now + d]
            /\ retired' = retired \ {T}
    /\ UNCHANGED << now, terminated_message_type, contains, nretires, regVars, arg_i,
                    thr, frees, fired >>

\* pthread_cond_broadcast of alarm_insert, after the mutex is released
Broadcast ==
    /\ ~crashed /\ mpc = "bcast"
    /\ thr' = [w \in Workers |->
                 IF thr[w].pc = "wait" THEN [thr[w] EXCEPT !.woken = TRUE] ELSE thr[w]]
    /\ mpc' = "idle"
    /\ UNCHANGED << heap, alarm_list, nalloc, now, terminated_message_type, contains,
                    nretires, regVars, arg_i, crashed, histVars >>

\* the clock advances
Tick ==
    /\ ~crashed
    /\ now' = now + 1
    /\ UNCHANGED << heap, alarm_list, nalloc, mainVars, regVars, arg_i, thr, crashed,
                    histVars >>

\* ------------------------------------------------------------- free

\* free(p): a second free of the same cell is detected by the allocator
\* and aborts the process
FreeOk(h, p) == p \in Alarms /\ h[p].st = "live"

FreeCell(h, p) == IF FreeOk(h, p) THEN [h EXCEPT ![p].st = "freed"] ELSE h

CountFree(f, p) ==
    IF p \in Alarms THEN [f EXCEPT ![p] = IF f[p] < 2 THEN f[p] + 1 ELSE 2] ELSE f

\* ------------------------------------------------------------- alarm_remover

\* the for loop of alarm_remover; past = NULL stands for temp_alarm_past == NULL
RECURSIVE RemoveWalk(_, _, _, _, _, _, _)
RemoveWalk(h, head, temp, past, a, ub, fuel) ==
    IF temp = NULL
    THEN [ok |-> TRUE, head |-> head, heap |-> h]
    ELSE IF fuel = 0 \/ Faults(h, temp, ub)
    THEN [ok |-> FALSE, head |-> head, heap |-> h]
    ELSE IF temp = a
    THEN LET head1 == IF past = NULL THEN h[temp].link ELSE head
             h1 == IF past = NULL THEN h ELSE [h EXCEPT ![past].link = h[temp].link]
             h2 == [h1 EXCEPT ![temp].link = NULL]
         IN RemoveWalk(h2, head1, h2[temp].link, temp, a, ub, fuel - 1)
    ELSE RemoveWalk(h, head, h[temp].link, temp, a, ub, fuel - 1)

alarm_remover(h, head, a, ub) == RemoveWalk(h, head, head, NULL, a, ub, Fuel)

\* ------------------------------------------------------------- thread_terminate_cleanup

\* the cleanup handler's walk: every cell of the chain that starts at list is freed
RECURSIVE CleanupWalk(_, _, _, _, _)
CleanupWalk(h, f, next, ub, fuel) ==
    IF next = NULL
    THEN [ok |-> TRUE, heap |-> h, frees |-> f]
    ELSE IF fuel = 0 \/ Faults(h, next, ub) \/ ~FreeOk(h, next)
    THEN [ok |-> FALSE, heap |-> h, frees |-> CountFree(f, next)]
    ELSE CleanupWalk(FreeCell(h, next), CountFree(f, next), h[next].link, ub, fuel - 1)

\* the argument the handler runs with: pthread_cleanup_push copies the value
\* thread_alarm_list has when the handler is pushed, before the loop starts
CleanupArg(t) == NULL

thread_terminate_cleanup(h, f, t, ub) == CleanupWalk(h, f, CleanupArg(t), ub, Fuel)

\* ------------------------------------------------------------- alarm_thread

\* the scan for an entry of the thread's type that no thread has marked
RECURSIVE ScanWalk(_, _, _, _, _)
ScanWalk(h, alarm, T, ub, fuel) ==
    IF fuel = 0 \/ Faults(h, alarm, ub)
    THEN [ok |-> FALSE, alarm |-> NULL]
    ELSE IF h[alarm].message_type # T \/ h[alarm].status # 0
    THEN IF h[alarm].link # NULL
         THEN ScanWalk(h, h[alarm].link, T, ub, fuel - 1)
         ELSE [ok |-> TRUE, alarm |-> NULL]
    ELSE [ok |-> TRUE, alarm |-> alarm]

Scan(h, head, T, ub) ==
    IF head = NULL THEN [ok |-> TRUE, alarm |-> NULL] ELSE ScanWalk(h, head, T, ub, Fuel)

\* the insertion into the thread's sublist, ordered by time
RECURSIVE SublistWalk(_, _, _, _, _, _, _)
SublistWalk(h, head, prev, next, a, ub, fuel) ==
    IF next = NULL
    THEN [ok |-> TRUE,
          head |-> IF prev = NULL THEN a ELSE head,
          heap |-> IF prev = NULL
                   THEN [h EXCEPT ![a].link = NULL]
                   ELSE [h EXCEPT ![prev].link = a, ![a].link = NULL]]
    ELSE IF fuel = 0 \/ Faults(h, next, ub)
    THEN [ok |-> FALSE, head |-> head, heap |-> h]
    ELSE IF h[next].time >= h[a].time
    THEN [ok |-> TRUE,
          head |-> IF prev = NULL THEN a ELSE head,
          heap |-> IF prev = NULL
                   THEN [h EXCEPT ![a].link = next]
                   ELSE [h EXCEPT ![prev].link = a, ![a].link = next]]
    ELSE SublistWalk(h, head, next, h[next].link, a, ub, fuel - 1)

SublistInsert(h, head, a, ub) == SublistWalk(h, head, NULL, head, a, ub, Fuel)

\* the thread ends: the cleanup handler runs and the thread's locals are gone
Exit(w, ub) ==
    LET c == thread_terminate_cleanup(heap, frees, thr[w], ub)
    IN /\ heap' = c.heap
       /\ frees' = c.frees
       /\ crashed' = ~c.ok
       /\ thr' = [thr EXCEPT ![w] = [NoThread EXCEPT !.pc = "dead"]]

\* the slot of "int i" is read by the threads that have not read their argument
\* yet; once none is left its content is never read before the next
\* Create_Thread writes it, and is recorded as 0
Slot(t, v) == IF \E w \in Workers : t[w].pc = "start" THEN v ELSE 0

\* int type_of_thread = *((int *) arg)
WStart(w) ==
    /\ ~crashed /\ thr[w].pc = "start"
    /\ thr' = [thr EXCEPT ![w].pc = "top", ![w].type_of_thread = arg_i]
    /\ arg_i' = Slot(thr', arg_i)
    /\ UNCHANGED << heap, alarm_list, nalloc, now, mainVars, regVars, crashed, histVars >>

\* one pass from pthread_mutex_lock at the top of the loop to the unlock or
\* the wait: the scan of alarm_list, then pthread_cond_wait, or sleep(0) and
\* the unlock.  A pending cancellation is acted upon in pthread_cond_wait and
\* in sleep(0), with the mutex held.
WTop(w) ==
    /\ ~crashed /\ thr[w].pc = "top"
    /\ \E ub \in UBModes :
         LET s == Scan(heap, alarm_list, thr[w].type_of_thread, ub)
         IN IF ~s.ok
            THEN /\ crashed' = TRUE
                 /\ UNCHANGED << heap, frees, thr >>
            ELSE IF thr[w].cancel
            THEN Exit(w, ub)
            ELSE /\ thr' = [thr EXCEPT
                              ![w].alarm = s.alarm,
                              ![w].woken = FALSE,
                              ![w].pc = IF s.alarm = NULL /\ thr[w].thread_alarm_list = NULL
                                        THEN "wait"
                                        ELSE IF s.alarm # NULL THEN "claim" ELSE "check"]
                 /\ UNCHANGED << heap, frees, crashed >>
    /\ UNCHANGED << alarm_list, nalloc, now, mainVars, regVars, arg_i,
                    deadline, fired, retired >>

\* pthread_cond_wait returns (a broadcast came) or is cancelled; then
\* sleep(0), the unlock and the next pass
WWake(w) ==
    /\ ~crashed /\ thr[w].pc = "wait"
    /\ thr[w].woken \/ thr[w].cancel
    /\ IF thr[w].cancel
       THEN \E ub \in UBModes : Exit(w, ub)
       ELSE /\ thr' = [thr EXCEPT ![w].pc = "top", ![w].woken = FALSE]
            /\ UNCHANGED << heap, frees, crashed >>
    /\ UNCHANGED << alarm_list, nalloc, now, mainVars, regVars, arg_i,
                    deadline, fired, retired >>

\* alarm->status = pthread_self(), outside the mutex
WClaim(w) ==
    /\ ~crashed /\ thr[w].pc = "claim"
    /\ \E ub \in UBModes :
         IF Faults(heap, thr[w].alarm, ub)
         THEN /\ crashed' = TRUE
              /\ UNCHANGED << heap, thr >>
         ELSE /\ heap' = [heap EXCEPT ![thr[w].alarm].status = w]
              /\ thr' = [thr EXCEPT ![w].pc = "remove"]
              /\ UNCHANGED crashed
    /\ UNCHANGED << alarm_list, nalloc, now, mainVars, regVars, arg_i, histVars >>

\* alarm_remover(alarm)
WRemove(w) ==
    /\ ~crashed /\ thr[w].pc = "remove"
    /\ \E ub \in UBModes :
         LET r == alarm_remover(heap, alarm_list, thr[w].alarm, ub)
         IN /\ heap' = r.heap
            /\ alarm_list' = r.head
            /\ crashed' = ~r.ok
            /\ thr' = IF r.ok THEN [thr EXCEPT ![w].pc = "assign"] ELSE thr
    /\ UNCHANGED << nalloc, now, mainVars, regVars, arg_i, histVars >>

\* alarm->time = time(NULL) + alarm->seconds, the insertion into the sublist,
\* current_alarm = thread_alarm_list.  The seconds of a freed cell are garbage.
WAssign(w) ==
    /\ ~crashed /\ thr[w].pc = "assign"
    /\ \E ub \in UBModes, g \in Delays :
         LET a == thr[w].alarm
             secs == IF Dangling(heap, a) THEN g ELSE heap[a].seconds
         IN IF Faults(heap, a, ub)
            THEN /\ crashed' = TRUE
                 /\ UNCHANGED << heap, thr >>
            ELSE LET r == SublistInsert([heap EXCEPT ![a].time = now + secs],
                                        thr[w].thread_alarm_list, a, ub)
                 IN /\ heap' = r.heap
                    /\ crashed' = ~r.ok
                    /\ thr' = IF r.ok
                              THEN [thr EXCEPT ![w].thread_alarm_list = r.head,
                                               ![w].current_alarm = r.head,
                                               ![w].alarm = NULL,
                                               ![w].pc = "check"]
                              ELSE thr
    /\ UNCHANGED << alarm_list, nalloc, now, mainVars, regVars, arg_i, histVars >>

\* the fired event of current_alarm
Event(h, c) == [id |-> c, type |-> h[c].message_type, at |-> now,
                late |-> h[c].message_type \in retired]

\* now = time(NULL); if (current_alarm->time <= now): the test that decides
\* whether the message is printed.  The time of a freed cell is garbage: the
\* test goes either way.
WCheck(w) ==
    /\ ~crashed /\ thr[w].pc = "check"
    /\ \E ub \in UBModes, g \in BOOLEAN :
         LET c == thr[w].current_alarm
             due == IF Dangling(heap, c) THEN g ELSE heap[c].time <= now
         IN IF Faults(heap, c, ub)
            THEN /\ crashed' = TRUE
                 /\ UNCHANGED thr
            ELSE /\ thr' = [thr EXCEPT ![w].pc = IF due THEN "fire" ELSE "top"]
                 /\ UNCHANGED crashed
    /\ UNCHANGED << heap, alarm_list, nalloc, now, mainVars, regVars, arg_i, histVars >>

\* the two printf of the due branch, then the entry leaves the sublist and
\* is freed
WFire(w) ==
    /\ ~crashed /\ thr[w].pc = "fire"
    /\ \E ub \in UBModes :
         LET c == thr[w].current_alarm
         IN IF Faults(heap, c, ub)
            THEN /\ crashed' = TRUE
                 /\ UNCHANGED << heap, thr, frees, fired >>
            ELSE /\ fired' = Append(fired, Event(heap, c))
                 /\ frees' = CountFree(frees, c)
                 /\ heap' = FreeCell(heap, c)
                 /\ crashed' = ~FreeOk(heap, c)
                 /\ thr' = [thr EXCEPT ![w].thread_alarm_list = heap[c].link,
                                       ![w].current_alarm = heap[c].link,
                                       ![w].pc = "top"]
    /\ UNCHANGED << alarm_list, nalloc, now, mainVars, regVars, arg_i,
                    deadline, retired >>

\* printf may be a cancellation point: a pending cancellation may be acted
\* upon in the printf after alarm_remover, in the printf of the message (the
\* message is not printed) or in the one after it (the message is printed,
\* the entry is not freed).  The mutex is not held there.
WPrintfCancel(w) ==
    /\ ~crashed /\ thr[w].cancel
    /\ thr[w].pc \in {"assign", "fire"}
    /\ \E ub \in UBModes, printed \in BOOLEAN :
         /\ printed => thr[w].pc = "fire" /\ ~Faults(heap, thr[w].current_alarm, ub)
         /\ fired' = IF printed
                     THEN Append(fired, Event(heap, thr[w].current_alarm))
                     ELSE fired
         /\ Exit(w, ub)
    /\ UNCHANGED << alarm_list, nalloc, now, mainVars, regVars, arg_i,
                    deadline, retired >>

\* ------------------------------------------------------------- main

\* case 1 of main: pthread_create with arg = &i, then the new node is appended
\* to the thread list through last_thread
Create(T) ==
    /\ ~crashed /\ mpc = "idle"
    /\ \E ub \in UBModes :
         LET w == nthreads + 1
             node == [link |-> NULL, message_type |-> T, st |-> "live"]
             r1 == [reg EXCEPT ![w] = node]
             bad == head_thread # NULL /\ reg[last_thread].st # "live" /\ ub = "crash"
         IN /\ nthreads' = w
            /\ thr' = [thr EXCEPT ![w] = [NoThread EXCEPT !.pc = "start"]]
            /\ arg_i' = T
            /\ crashed' = bad
            /\ reg' = IF head_thread = NULL \/ bad
                      THEN r1
                      ELSE [r1 EXCEPT ![last_thread].link = w]
            /\ head_thread' = IF head_thread = NULL THEN w ELSE head_thread
            /\ last_thread' = w
    /\ UNCHANGED << heap, alarm_list, nalloc, now, mainVars, histVars >>

\* the first loop of case 2: every node of the thread list whose type is T is
\* cancelled, unlinked and freed.  past = NULL stands for temp_thread_past == NULL.
RECURSIVE CancelWalk(_, _, _, _, _, _, _, _)
CancelWalk(r, head, temp, past, T, cont, who, fuel) ==
    IF temp = NULL \/ fuel = 0
    THEN [reg |-> r, head |-> head, contains |-> cont, cancelled |-> who]
    ELSE IF r[temp].message_type = T
    THEN LET head1 == IF head = temp THEN r[temp].link ELSE head
             r1 == IF head = temp THEN r ELSE [r EXCEPT ![past].link = r[temp].link]
             r2 == [r1 EXCEPT ![temp].st = "freed"]
         IN CancelWalk(r2, head1, IF past = NULL THEN head1 ELSE r2[past].link,
                       past, T, 1, who \cup {temp}, fuel - 1)
    ELSE CancelWalk(r, head, r[temp].link, temp, T, cont, who, fuel - 1)

cancel_all(r, head, T) ==
    CancelWalk(r, head, head, NULL, T, 0, {}, Cardinality(Workers) + 1)

\* case 2 of main up to the lock: terminated_message_type, contains = 0 and the
\* cancel loop.  The block's locals may share the stack slot of "int i".
Retire(T) ==
    /\ ~crashed /\ mpc = "idle"
    /\ nretires' = nretires + 1
    /\ LET c == cancel_all(reg, head_thread, T)
       IN /\ terminated_message_type' = T
          /\ contains' = c.contains
          /\ reg' = c.reg
          /\ head_thread' = c.head
          /\ thr' = [w \in Workers |->
                       IF w \in c.cancelled THEN [thr[w] EXCEPT !.cancel = TRUE] ELSE thr[w]]
          /\ \E v \in {arg_i, c.contains} : arg_i' = Slot(thr, v)
    /\ mpc' = "purge"
    /\ UNCHANGED << heap, alarm_list, nalloc, now, last_thread, nthreads, crashed,
                    histVars >>

\* iterations the second loop of case 2 can take before it is in a cycle
PurgeFuel == Fuel * Fuel

\* the second loop of case 2; past starts with what the stack held, since
\* temp_alarm_past has no initial value
RECURSIVE PurgeWalk(_, _, _, _, _, _, _, _, _)
PurgeWalk(h, head, temp, past, T, cont, f, ub, fuel) ==
    IF temp = NULL
    THEN [ok |-> TRUE, heap |-> h, head |-> head, contains |-> cont, frees |-> f]
    ELSE IF fuel = 0 \/ Faults(h, temp, ub)
    THEN [ok |-> FALSE, heap |-> h, head |-> head, contains |-> cont, frees |-> f]
    ELSE IF h[temp].message_type = T
    THEN IF (head # temp /\ Faults(h, past, ub)) \/ ~FreeOk(h, temp)
         THEN [ok |-> FALSE, heap |-> h, head |-> head, contains |-> 1,
               frees |-> IF head # temp /\ Faults(h, past, ub) THEN f ELSE CountFree(f, temp)]
         ELSE LET head1 == IF head = temp THEN h[temp].link ELSE head
                  h1 == IF head = temp THEN h ELSE [h EXCEPT ![past].link = h[temp].link]
                  h2 == FreeCell(h1, temp)
              IN IF past = NULL
                 THEN PurgeWalk(h2, head1, head1, past, T, 1, CountFree(f, temp), ub, fuel - 1)
                 ELSE IF Faults(h2, past, ub)
                 THEN [ok |-> FALSE, heap |-> h2, head |-> head1, contains |-> 1,
                       frees |-> CountFree(f, temp)]
                 ELSE PurgeWalk(h2, head1, h2[past].link, past, T, 1,
                                CountFree(f, temp), ub, fuel - 1)
    ELSE PurgeWalk(h, head, h[temp].link, temp, T, cont, f, ub, fuel - 1)

\* what the stack slot of temp_alarm_past may hold when the loop starts
StackGarbage == {NULL, WILD} \cup (1 .. nalloc)

\* case 2 of main from the lock to the break: the entries of type
\* terminated_message_type are unlinked from alarm_list and freed
Purge ==
    /\ ~crashed /\ mpc = "purge"
    /\ \E ub \in UBModes, p0 \in StackGarbage :
         LET r == PurgeWalk(heap, alarm_list, alarm_list, p0, terminated_message_type,
                            contains, frees, ub, PurgeFuel)
         IN /\ heap' = r.heap
            /\ alarm_list' = r.head
            /\ frees' = r.frees
            /\ contains' = r.contains
            /\ crashed' = ~r.ok
            /\ mpc' = IF r.ok THEN "idle" ELSE mpc
            /\ retired' = IF r.ok THEN retired \cup {terminated_message_type} ELSE retired
            /\ \E v \in {arg_i, r.contains} : arg_i' = Slot(thr, v)
    /\ UNCHANGED << nalloc, now, terminated_message_type, nretires, regVars, thr,
                    deadline, fired >>

\* ------------------------------------------------------------- specifications

\* Every step of the program, for a main thread that accepts nA alarm
\* requests, nW Create_Thread and nR Terminate_Thread commands with message
\* types 1..nTy and delays 0..nD, while the clock runs to nT.
Step(nA, nW, nR, nT, nTy, nD) ==
    \/ nalloc < nA /\ \E d \in 0 .. nD, T \in 1 .. nTy : Schedule(d, T)
    \/ Broadcast
    \/ nthreads < nW /\ \E T \in 1 .. nTy : Create(T)
    \/ nretires < nR /\ \E T \in 1 .. nTy : Retire(T)
    \/ Purge
    \/ now < nT /\ Tick
    \/ \E w \in Workers : WStart(w)
    \/ \E w \in Workers : WTop(w)
    \/ \E w \in Workers : WWake(w)
    \/ \E w \in Workers : WClaim(w)
    \/ \E w \in Workers : WRemove(w)
    \/ \E w \in Workers : WAssign(w)
    \/ \E w \in Workers : WCheck(w)
    \/ \E w \in Workers : WFire(w)
    \/ \E w \in Workers : WPrintfCancel(w)

Next == Step(MaxAlarms, MaxWorkers, MaxRetires, MaxTime, MaxType, MaxDelay)

Spec == Init /\ [][Next]_vars

\* the program with a single alarm thread
NextOne == Step(OneAlarms, OneWorkers, MaxRetires, MaxTime, OneType, MaxDelay)

SpecOne == Init /\ [][NextOne]_vars

\* The program for a main thread that is given Create_Thread and
\* Terminate_Thread commands only: no alarm request is made, so the threads
\* start, scan the empty list and wait until they are cancelled.
NextReg ==
    \/ nthreads < RegWorkers /\ \E T \in 1 .. RegType : Create(T)
    \/ nretires < RegRetires /\ \E T \in 1 .. RegType : Retire(T)
    \/ Purge
    \/ \E w \in Workers : WStart(w)
    \/ \E w \in Workers : WTop(w)
    \/ \E w \in Workers : WWake(w)

SpecReg == Init /\ [][NextReg]_vars

\* The program for a main thread that is given Create_Thread commands and
\* alarm requests of delay 0 only (every request is due when it is made, so
\* the end of the modelled clock keeps no request from becoming due).
NextLive ==
    \/ nalloc < MaxAlarms /\ \E T \in 1 .. MaxType : Schedule(0, T)
    \/ Broadcast
    \/ nthreads < MaxWorkers /\ \E T \in 1 .. MaxType : Create(T)
    \/ now < MaxTime /\ Tick
    \/ \E w \in Workers : WStart(w)
    \/ \E w \in Workers : WTop(w)
    \/ \E w \in Workers : WWake(w)
    \/ \E w \in Workers : WClaim(w)
    \/ \E w \in Workers : WRemove(w)
    \/ \E w \in Workers : WAssign(w)
    \/ \E w \in Workers : WCheck(w)
    \/ \E w \in Workers : WFire(w)

\* Every thread that can take a step eventually takes one (the threads are
\* scheduled preemptively and none is starved), the main thread finishes the
\* command it is in, and the clock advances.  The commands themselves are
\* under no obligation to come.
Fairness ==
    /\ WF_vars(Broadcast)
    /\ WF_vars(now < MaxTime /\ Tick)
    /\ \A w \in Workers :
         /\ WF_vars(WStart(w))
         /\ WF_vars(WTop(w))
         /\ WF_vars(WWake(w))
         /\ WF_vars(WClaim(w))
         /\ WF_vars(WRemove(w))
         /\ WF_vars(WAssign(w))
         /\ WF_vars(WCheck(w))
         /\ WF_vars(WFire(w))

FairSpec == Init /\ [][NextLive]_vars /\ Fairness

\* The program for a main thread that is given Create_Thread commands and
\* alarm requests of delay 0, while the clock stands.
NextBind ==
    \/ nalloc < BindAlarms /\ \E T \in 1 .. BindType : Schedule(0, T)
    \/ Broadcast
    \/ nthreads < MaxWorkers /\ \E T \in 1 .. BindType : Create(T)
    \/ \E w \in Workers : WStart(w)
    \/ \E w \in Workers : WTop(w)
    \/ \E w \in Workers : WWake(w)
    \/ \E w \in Workers : WClaim(w)
    \/ \E w \in Workers : WRemove(w)
    \/ \E w \in Workers : WAssign(w)
    \/ \E w \in Workers : WCheck(w)
    \/ \E w \in Workers : WFire(w)

SpecBind == Init /\ [][NextBind]_vars

\* The program with a single alarm thread for a main thread that is given
\* alarm requests of delay 0, while the clock stands.
NextQueue ==
    \/ nalloc < QueueAlarms /\ \E T \in 1 .. OneType : Schedule(0, T)
    \/ Broadcast
    \/ nthreads < OneWorkers /\ \E T \in 1 .. OneType : Create(T)
    \/ nretires < MaxRetires /\ \E T \in 1 .. OneType : Retire(T)
    \/ Purge
    \/ \E w \in Workers : WStart(w)
    \/ \E w \in Workers : WTop(w)
    \/ \E w \in Workers : WWake(w)
    \/ \E w \in Workers : WClaim(w)
    \/ \E w \in Workers : WRemove(w)
    \/ \E w \in Workers : WAssign(w)
    \/ \E w \in Workers : WCheck(w)
    \/ \E w \in Workers : WFire(w)
    \/ \E w \in Workers : WPrintfCancel(w)

SpecQueue == Init /\ [][NextQueue]_vars

\* ------------------------------------------------------------- claims

\* the cells of the chain that starts at p
RECURSIVE Chain(_, _, _)
Chain(h, p, fuel) ==
    IF p \notin Alarms \/ fuel = 0 THEN {} ELSE {p} \cup Chain(h, h[p].link, fuel - 1)

\* the thread's private sublist
Sublist(w) == Chain(heap, thr[w].thread_alarm_list, Fuel)

\* the entry the thread found in its scan and is claiming
InClaim(w) ==
    IF thr[w].pc \in {"claim", "remove", "assign"} THEN {thr[w].alarm} ELSE {}

\* the allocated requests a thread holds
Held(w) == {a \in Sublist(w) \cup InClaim(w) : heap[a].st = "live"}

\* how many fired events request a has
FiredCount(a) == Cardinality({i \in DOMAIN fired : fired[i].id = a})

\* C1: no alarm request is held, in the private sublist or in the
\* claim-in-progress variable, by more than one alarm thread.
C1_SingleOwner ==
    \A w1, w2 \in Workers : w1 # w2 => Held(w1) \cap Held(w2) = {}

\* C2: every scheduled request produces at most one fired event.
C2_AtMostOnceFired ==
    \A a \in Alarms : FiredCount(a) <= 1

\* C3: once Terminate_Thread for type T has returned and no request of type T
\* has been scheduled since, no fired event of type T is emitted.
C3_NoFireAfterRetire ==
    \A i \in DOMAIN fired : ~fired[i].late

\* C4: when Terminate_Thread for type T returns, every thread created for
\* type T has been cancelled and its node is out of the thread list.
C4_RetireCancelsAll ==
    [][(mpc = "purge" /\ mpc' = "idle") =>
         \A w \in 1 .. nthreads :
            reg'[w].message_type = terminated_message_type =>
               /\ thr'[w].cancel \/ thr'[w].pc = "dead"
               /\ reg'[w].st = "freed"]_vars

\* C5: no alarm request is freed more than once (already in the runs
\* without a Terminate_Thread command, where only alarm threads free).
C5_NoDoubleFree ==
    nretires = 0 => \A a \in Alarms : frees[a] <= 1

\* C6: when an alarm thread is cancelled in sleep(0) at the end of its scan,
\* its cleanup handler frees every request that is in its private sublist.
C6_CleanupFreesSublist ==
    [][\A w \in Workers :
         (thr[w].pc = "top" /\ thr'[w].pc = "dead") =>
            \A a \in Sublist(w) : heap'[a].st # "live"]_vars

\* C7: with a single alarm thread and no Terminate_Thread command, the fired
\* events appear in nondecreasing order of schedule time + delay.
C7_FiredInDeadlineOrder ==
    (nthreads <= 1 /\ nretires = 0) =>
        \A i, j \in DOMAIN fired :
            i < j => deadline[fired[i].id] <= deadline[fired[j].id]

\* C8: no request is fired at a clock value smaller than its schedule time
\* plus its delay.
C8_NoEarlyFiring ==
    \A i \in DOMAIN fired : fired[i].at >= deadline[fired[i].id]

\* thread w runs with message type T
BoundTo(w, T) ==
    thr[w].pc \notin {"none", "start", "dead"} /\ thr[w].type_of_thread = T

\* the process died of an access to freed memory that was not a second free
DiedOfStrayAccess == crashed /\ \A a \in Alarms : frees[a] <= 1

\* C9: a request that is allocated while an alarm thread of its type runs is
\* eventually fired (no Terminate_Thread command is given).  A run in which
\* the process dies of a stray access to freed memory is not held against
\* the claim; a run that ends in the allocator's abort on a double free is.
C9_EventuallyFired ==
    \A a \in Alarms :
        (heap[a].st = "live" /\ \E w \in Workers : BoundTo(w, heap[a].message_type))
            ~> (FiredCount(a) >= 1 \/ DiedOfStrayAccess)

\* C10: the time an alarm thread compares the clock with is the request's
\* schedule time plus its delay, whenever the thread claimed it.
C10_DeadlineFixedAtSchedule ==
    \A w \in Workers : \A a \in Sublist(w) :
        heap[a].st = "live" => heap[a].time = deadline[a]

\* the cells of the chain that starts at p, in order
RECURSIVE ChainSeq(_, _, _)
ChainSeq(h, p, fuel) ==
    IF p \notin Alarms \/ fuel = 0 THEN << >> ELSE <<p>> \o ChainSeq(h, h[p].link, fuel - 1)

\* the shared list, from its head
Queue == ChainSeq(heap, alarm_list, Fuel)

\* the main thread's step from the cancel loop to the purge, and the step
\* that ends the Terminate_Thread command
RetireCalled == mpc = "idle" /\ mpc' = "purge"
RetireReturns == mpc = "purge" /\ mpc' = "idle"

\* C11: Terminate_Thread for type T prints its message exactly when a thread
\* is registered for T when the command is given: the cancel loop sets the
\* flag exactly then, and the purge of alarm_list leaves the flag as it is,
\* whatever the list contains.
C11_HadAnyIffWorker ==
    [][/\ RetireCalled =>
            (contains' = 1 <=>
                \E w \in 1 .. nthreads :
                    reg[w].st = "live" /\ reg[w].message_type = terminated_message_type')
       /\ RetireReturns => contains' = contains]_vars

\* C12: when Terminate_Thread for type T returns, alarm_list holds no entry
\* of type T and holds the entries of the other types it held before, in the
\* same order; the cancel loop cancels no thread created for another type.
C12_PurgeFrame ==
    [][/\ RetireReturns =>
            LET Other(a) == heap[a].message_type # terminated_message_type
            IN /\ \A a \in Chain(heap', alarm_list', Fuel) :
                     heap'[a].message_type # terminated_message_type
               /\ ChainSeq(heap', alarm_list', Fuel) = SelectSeq(Queue, Other)
       /\ RetireCalled =>
            \A w \in Workers :
                (thr'[w].cancel /\ ~thr[w].cancel) =>
                    reg[w].message_type = terminated_message_type']_vars

\* no alarm request of type T has been made so far
NeverScheduled(T) == \A a \in 1 .. nalloc : heap[a].message_type # T

\* C13: a thread waits on alarm_cond only with an empty sublist and a scan
\* that found nothing; and a thread created for type T, as long as no request
\* of type T has been made, claims nothing and prints nothing: it is starting,
\* scanning or waiting.
C13_IdleUntilWork ==
    \A w \in Workers :
        /\ thr[w].pc = "wait" =>
              thr[w].thread_alarm_list = NULL /\ thr[w].alarm = NULL
        /\ (thr[w].pc \notin {"none", "dead"} /\ NeverScheduled(reg[w].message_type)) =>
              thr[w].pc \in {"start", "top", "wait"}

\* C14: when a thread has released the mutex after a scan that found an
\* entry, the entry is out of alarm_list and is marked with the thread.
C14_AtomicTake ==
    \A w \in Workers :
        (thr[w].pc \in {"claim", "remove"} /\ thr[w].alarm \in Alarms) =>
            /\ thr[w].alarm \notin Chain(heap, alarm_list, Fuel)
            /\ heap[thr[w].alarm].status = w

\* the scan thread w is about to make finds nothing and its sublist is
\* empty: the thread goes to pthread_cond_wait
GoesToWait(w) ==
    /\ thr[w].thread_alarm_list = NULL
    /\ Scan(heap, alarm_list, thr[w].type_of_thread, "stale").alarm = NULL

\* C15: a thread ends on a cancellation only in pthread_cond_wait, never
\* with the mutex held after a scan that found work (an entry, or a sublist
\* that is not empty); and never where it does not hold the mutex that its
\* cleanup handler unlocks (after the unlock that follows the scan).
C15_CancelSafePoints ==
    [][\A w \in Workers :
         (thr[w].pc # "dead" /\ thr'[w].pc = "dead") =>
            /\ thr[w].pc \in {"top", "wait"}
            /\ thr[w].pc = "top" => GoesToWait(w)]_vars

\* C16: the entries of one message type are in alarm_list in the order in
\* which they were requested (the cells are numbered in that order), so a
\* scan meets the oldest request of its type first.
C16_ArrivalOrder ==
    \A a \in Chain(heap, alarm_list, Fuel) :
        LET b == heap[a].link
        IN (b \in Alarms /\ heap[a].message_type = heap[b].message_type) => a < b

\* C17: alarm_list is in nondecreasing order of message type from head to
\* tail, after every insertion, every alarm_remover and every purge.
C17_QueueSorted ==
    \A a \in Chain(heap, alarm_list, Fuel) :
        LET b == heap[a].link
        IN b \in Alarms => heap[a].message_type <= heap[b].message_type

\* C17's case: a purge has freed a request, a thread has taken another out of
\* alarm_list, and requests of two types made afterwards are in the list
C17_SortedAfterAll ==
    /\ ~crashed /\ mpc = "idle" /\ nretires = 1
    /\ \E x \in Alarms : heap[x].st = "freed" /\ FiredCount(x) = 0
    /\ \E w \in Workers : Held(w) # {} /\ thr[w].pc = "check"
    /\ \E a, b \in Chain(heap, alarm_list, Fuel) :
          /\ heap[a].message_type < heap[b].message_type
          /\ heap[a].st = "live" /\ heap[b].st = "live"

\* C18: once a thread has put a claimed request into its sublist, and after
\* every message it prints, its sublist is in ascending order of schedule
\* time + delay, and when it tests an entry against the clock that entry is
\* the head of the sublist (already in the runs without Terminate_Thread).
C18_SublistSorted ==
    nretires = 0 =>
        \A w \in Workers :
            /\ \A a \in Sublist(w) :
                  LET b == heap[a].link
                  IN b \in Alarms => deadline[a] <= deadline[b]
            /\ thr[w].pc \in {"check", "fire"} =>
                  /\ thr[w].current_alarm # NULL
                  /\ thr[w].current_alarm = thr[w].thread_alarm_list

\* C19: a running thread's type_of_thread is the message type of the
\* Create_Thread command that created it.
C19_TypeBinding ==
    \A w \in Workers :
        thr[w].pc \notin {"none", "start", "dead"} =>
            thr[w].type_of_thread = reg[w].message_type

\* the nodes of the thread list that starts at p, in order
RECURSIVE RegSeq(_, _, _)
RegSeq(r, p, fuel) ==
    IF p \notin Workers \/ fuel = 0 THEN << >> ELSE <<p>> \o RegSeq(r, r[p].link, fuel - 1)

\* the thread list, from head_thread
Registry == RegSeq(reg, head_thread, Cardinality(Workers) + 1)

\* C20: the thread list holds exactly the nodes of the threads that were
\* created and not removed by a Terminate_Thread command, and while it is
\* not empty last_thread is its last node.
C20_RegistryConsistent ==
    /\ {Registry[i] : i \in DOMAIN Registry} = {w \in Workers : reg[w].st = "live"}
    /\ head_thread # NULL => last_thread = Registry[Len(Registry)]
====
